---- MODULE Spec2Model ----
(***************************************************************************)
(* Model of trim_hdf5.py: the command line (main), the call trim_hdf5 and  *)
(* its recursive copy_structure, as a state machine over the input file,   *)
(* the output file and the position of one invocation.                     *)
(*                                                                         *)
(* Python's None is the empty tuple <<>>; an optional integer v is <<v>>;  *)
(* args.range is the two-element list <<START, END>> argparse builds.      *)
(* A node path is the tuple of the keys leading to it from the root.       *)
(* An array is [shape, data]: data holds the rows along axis 0 (one value  *)
(* per row); a scalar has shape <<>> and its single value in data.         *)
(***************************************************************************)
EXTENDS Integers, Sequences, FiniteSets, TLC

VARIABLES
    src,      \* the input path: [exists, valid, attrs, nodes]
    outFile,  \* the output path: [exists, attrs, nodes]
    entry,    \* "main": run from the command line; "call": trim_hdf5 called
    args,     \* argparse's namespace: [rows, range, force]
    call,     \* trim_hdf5's parameters: [start, end, force]
    pc,       \* "main", "trim", "copy", "done"
    exit,     \* the exit status, NotExited while running (and 0 on return)
    err,      \* what was written to standard error
    todo,     \* the nodes copy_structure has still to visit, in order
    opened,   \* the files h5py.File opened in this invocation
    sliced,   \* the <<start, stop>> of every src_item[start:actual_end] read
    log       \* the lines printed to standard output by copy_structure

vars == <<src, outFile, entry, args, call, pc, exit, err, todo, opened, sliced, log>>

-----------------------------------------------------------------------------
(* Bounds of the model *)

\* the largest leading extent of a dataset of the input file
MaxRows == 3
\* how far below zero the indices given to the program go
MaxNeg == 1

-----------------------------------------------------------------------------
(* Values *)

None == <<>>

NotExited == 0 - 1

Indices == (0 - MaxNeg)..(MaxRows + 1)

Optional(S) == {None} \cup {<<v>> : v \in S}

EmptyNodes == [p \in {} |-> None]

\* one item of x.attrs.items()
Attr(k, v) == [key |-> k, value |-> v]

\* h5py's node kinds; copy_structure tests for Group and Dataset only
GroupNode(attrs) ==
    [kind |-> "Group", attrs |-> attrs, shape |-> <<>>, data |-> <<>>,
     compression |-> "None", compression_opts |-> None]

DatatypeNode ==
    [kind |-> "Datatype", attrs |-> <<>>, shape |-> <<>>, data |-> <<>>,
     compression |-> "None", compression_opts |-> None]

DatasetNode(attrs, shape, data, compression, compression_opts) ==
    [kind |-> "Dataset", attrs |-> attrs, shape |-> shape, data |-> data,
     compression |-> compression, compression_opts |-> compression_opts]

\* rows base+1 .. base+n: every row of a dataset holds a different value
Rows(base, n) == [i \in 1..n |-> base + i]

-----------------------------------------------------------------------------
(* The input files the runs are given *)

MissingFile == [exists |-> FALSE, valid |-> FALSE, attrs |-> <<>>, nodes |-> EmptyNodes]

CorruptFile == [exists |-> TRUE, valid |-> FALSE, attrs |-> <<>>, nodes |-> EmptyNodes]

Codecs == {<<"None", None>>, <<"gzip", <<4>>>>}

\* the second top-level node: an array of MaxRows rows, a scalar, or a
\* committed datatype
Others ==
    {DatasetNode(<<>>, <<MaxRows>>, Rows(10, MaxRows), "None", None),
     DatasetNode(<<Attr("unit", 7)>>, <<>>, <<42>>, "None", None),
     DatatypeNode}

\* root{ "g": Group{ "d": Dataset of n rows }, "h": other }
Tree(n, codec, other) ==
    [exists |-> TRUE, valid |-> TRUE,
     attrs |-> <<Attr("title", 1)>>,
     nodes |-> (<<"g">> :> GroupNode(<<Attr("version", 3)>>))
            @@ (<<"g", "d">> :> DatasetNode(<<Attr("unit", 5)>>, <<n>>, Rows(0, n),
                                            codec[1], codec[2]))
            @@ (<<"h">> :> other)]

SrcFiles ==
    {MissingFile, CorruptFile}
    \cup {Tree(n, c, o) : n \in 0..MaxRows, c \in Codecs, o \in Others}

NoFile == [exists |-> FALSE, attrs |-> <<>>, nodes |-> EmptyNodes]

\* the command lines argparse accepts (one of --rows, --range is required)
ArgsSet ==
    {[rows |-> <<n>>, range |-> None, force |-> f] :
        n \in 0..(MaxRows + 1), f \in BOOLEAN}
    \cup {[rows |-> None, range |-> <<s, e>>, force |-> f] :
        s \in Indices, e \in Indices, f \in BOOLEAN}

NoArgs == [rows |-> None, range |-> None, force |-> FALSE]

\* the direct calls trim_hdf5(input_file, output_file, start, end, force)
CallSet == [start : Indices, end : Optional(Indices), force : BOOLEAN]

NoCall == [start |-> 0, end |-> None, force |-> FALSE]

-----------------------------------------------------------------------------
(* Pure helpers *)

\* Python's truth value of args.rows (None and 0 are false)
Truthy(opt) == opt # None /\ opt[1] # 0

\* START >= END, the range check of main
RangeInvalidStrict(start, end) == start > end
RangeInvalid(start, end) == start >= end

\* the output exists and force is not set
OutputBlockedNever(file, force) == FALSE
OutputBlocked(file, force) == file.exists /\ ~force

\* for key, value in x.attrs.items(): y.attrs[key] = value
CopyAttrs(attrs) == [i \in 1..Len(attrs) |-> Attr(attrs[i].key, attrs[i].value)]

\* the keys of a group in h5py's iteration order (by name)
KeyOrder == <<"d", "g", "h">>

IsChild(nodes, parent, p) ==
    /\ p \in DOMAIN nodes
    /\ Len(p) = Len(parent) + 1
    /\ SubSeq(p, 1, Len(parent)) = parent

RECURSIVE ChildrenFrom(_, _, _)
ChildrenFrom(nodes, parent, i) ==
    IF i > Len(KeyOrder) THEN <<>>
    ELSE LET p == Append(parent, KeyOrder[i])
         IN  (IF IsChild(nodes, parent, p) THEN <<p>> ELSE <<>>)
             \o ChildrenFrom(nodes, parent, i + 1)

\* src_group.keys(), as the paths of the children
Children(nodes, parent) == ChildrenFrom(nodes, parent, 1)

\* len(src_item.shape) > 0 and src_item.shape[0] > 0
HasRows(node) == Len(node.shape) > 0 /\ node.shape[1] > 0

\* actual_end = end if end is not None else src_item.shape[0]
ActualEnd(end, n) == IF end # None THEN end[1] ELSE n

\* actual_end < src_item.shape[0]
NeedsTrimInclusive(actual_end, n) == actual_end <= n
NeedsTrim(actual_end, n) == actual_end < n

\* slice.indices: a negative index counts from the end, then both are clamped
ClampIndex(i, n) ==
    IF i < 0 THEN (IF i + n < 0 THEN 0 ELSE i + n)
    ELSE IF i > n THEN n ELSE i

\* src_item[start:stop] along axis 0
Slice(node, start, stop) ==
    LET n == node.shape[1]
        lo == ClampIndex(start, n)
        hi == ClampIndex(stop, n)
        rows == IF hi > lo THEN SubSeq(node.data, lo + 1, hi) ELSE <<>>
    IN  [shape |-> <<Len(rows)>> \o Tail(node.shape), data |-> rows]

\* src_item[:] and src_item[()]
ReadAll(node) == [shape |-> node.shape, data |-> node.data]

\* dst_group.create_dataset(key, data=..., compression=..., compression_opts=...)
CreateDataset(array, compression, compression_opts) ==
    DatasetNode(<<>>, array.shape, array.data, compression, compression_opts)

\* the dataset copy_structure creates for a source dataset, before its
\* attributes are copied
CreatedDataset(node, start, end) ==
    IF HasRows(node)
    THEN LET actual_end == ActualEnd(end, node.shape[1])
         IN  IF NeedsTrim(actual_end, node.shape[1])
             THEN CreateDataset(Slice(node, start, actual_end),
                                node.compression, node.compression_opts)
             ELSE CreateDataset(ReadAll(node),
                                node.compression, node.compression_opts)
    ELSE CreateDataset(ReadAll(node), "None", None)

\* whether the copy of the dataset takes src_item[start:actual_end]
Slices(node, end) ==
    HasRows(node) /\ NeedsTrim(ActualEnd(end, node.shape[1]), node.shape[1])

\* the progress line printed for a dataset copied without error (none for
\* the scalar branch)
Progress(p, node, end) ==
    IF ~HasRows(node) THEN <<>>
    ELSE IF Slices(node, end)
         THEN <<[msg |-> "Trimmed", path |-> p]>>
         ELSE <<[msg |-> "Copied", path |-> p]>>

Warning(p) == [msg |-> "Warning", path |-> p]

Warned(p) == \E i \in 1..Len(log) : log[i] = Warning(p)

-----------------------------------------------------------------------------
(* The state machine *)

Init ==
    /\ src \in SrcFiles
    /\ outFile = NoFile
    /\ \/ entry = "main" /\ args \in ArgsSet /\ call = NoCall /\ pc = "main"
       \/ entry = "call" /\ args = NoArgs /\ call \in CallSet /\ pc = "trim"
    /\ exit = NotExited
    /\ err = "None"
    /\ todo = <<>>
    /\ opened = {}
    /\ sliced = {}
    /\ log = <<>>

Ends(status, message) ==
    /\ pc' = "done"
    /\ exit' = status
    /\ err' = message

\* main(), from parse_args to the call of trim_hdf5
Main ==
    /\ pc = "main"
    /\ IF ~src.exists
       THEN Ends(1, "InputMissing") /\ UNCHANGED call
       ELSE IF Truthy(args.rows)
       THEN /\ call' = [start |-> 0, end |-> args.rows, force |-> args.force]
            /\ pc' = "trim"
            /\ UNCHANGED <<exit, err>>
       ELSE IF args.range = None
       THEN Ends(1, "TypeError") /\ UNCHANGED call
       ELSE IF RangeInvalid(args.range[1], args.range[2])
       THEN Ends(1, "RangeError") /\ UNCHANGED call
       ELSE /\ call' = [start |-> args.range[1], end |-> <<args.range[2]>>,
                        force |-> args.force]
            /\ pc' = "trim"
            /\ UNCHANGED <<exit, err>>
    /\ UNCHANGED <<src, outFile, entry, args, todo, opened, sliced, log>>

\* trim_hdf5, up to the call copy_structure(src, dst)
TrimOpen ==
    /\ pc = "trim"
    /\ IF OutputBlocked(outFile, call.force)
       THEN Ends(1, "OutputExists") /\ UNCHANGED <<outFile, todo, opened>>
       ELSE IF ~(src.exists /\ src.valid)
       THEN Ends(1, "Exception") /\ UNCHANGED <<outFile, todo, opened>>
       ELSE /\ opened' = {"src", "dst"}
            /\ outFile' = [exists |-> TRUE, attrs |-> CopyAttrs(src.attrs),
                           nodes |-> EmptyNodes]
            /\ todo' = Children(src.nodes, <<>>)
            /\ pc' = "copy"
            /\ UNCHANGED <<exit, err>>
    /\ UNCHANGED <<src, entry, args, call, sliced, log>>

Visiting(kind) ==
    /\ pc = "copy"
    /\ todo # <<>>
    /\ src.nodes[Head(todo)].kind = kind

\* copy_structure(src_item, dst_grp, item_path): the group's children are
\* visited before the group's siblings
RecurseNever(p) == <<>>
Recurse(p) == Children(src.nodes, p)

\* copy_structure on a group: create_group, its attributes, its contents
VisitGroup ==
    /\ Visiting("Group")
    /\ LET p == Head(todo)
       IN  /\ outFile' = [outFile EXCEPT !.nodes =
                             (p :> GroupNode(CopyAttrs(src.nodes[p].attrs))) @@ @]
           /\ todo' = Recurse(p) \o Tail(todo)
    /\ UNCHANGED <<src, entry, args, call, pc, exit, err, opened, sliced, log>>

\* copy_structure on a dataset: the try block and its except clause.
\* fail = 0: nothing raises; fail = -1: reading the data raises;
\* fail = -2: create_dataset raises; fail = i > 0: copying the i-th
\* attribute raises, after create_dataset and the attributes before it
VisitDataset ==
    /\ Visiting("Dataset")
    /\ LET p == Head(todo)
           node == src.nodes[p]
           made == CreatedDataset(node, call.start, call.end)
       IN  \E fail \in (0 - 2)..Len(node.attrs) :
             /\ outFile' =
                  IF fail < 0 THEN outFile
                  ELSE [outFile EXCEPT !.nodes =
                          (p :> [made EXCEPT !.attrs =
                                   IF fail = 0 THEN CopyAttrs(node.attrs)
                                   ELSE CopyAttrs(SubSeq(node.attrs, 1, fail - 1))])
                          @@ @]
             /\ sliced' =
                  IF Slices(node, call.end) /\ fail # 0 - 1
                  THEN sliced \cup {<<call.start, ActualEnd(call.end, node.shape[1])>>}
                  ELSE sliced
             /\ log' = log \o (IF fail = 0 THEN Progress(p, node, call.end)
                                ELSE <<Warning(p)>>)
    /\ todo' = Tail(todo)
    /\ UNCHANGED <<src, entry, args, call, pc, exit, err, opened>>

\* copy_structure on a node that is neither a group nor a dataset: no
\* branch of the if/elif takes it
VisitOther ==
    /\ pc = "copy"
    /\ todo # <<>>
    /\ src.nodes[Head(todo)].kind \notin {"Group", "Dataset"}
    /\ todo' = Tail(todo)
    /\ UNCHANGED <<src, outFile, entry, args, call, pc, exit, err, opened, sliced, log>>

\* an exception outside a dataset's try block (src_group[key], create_group,
\* a group's attributes) leaves copy_structure: both files are closed,
\* except Exception prints it and sys.exit(1); what was written stays
Abort ==
    /\ pc = "copy"
    /\ todo # <<>>
    /\ Ends(1, "Exception")
    /\ UNCHANGED <<src, outFile, entry, args, call, todo, opened, sliced, log>>

\* copy_structure returns, both files are closed, the success line is printed
Finish ==
    /\ pc = "copy"
    /\ todo = <<>>
    /\ Ends(0, "None")
    /\ UNCHANGED <<src, outFile, entry, args, call, todo, opened, sliced, log>>

\* the same command (or call) is run once more on the same two paths, with
\* or without the overwrite flag
Rerun ==
    /\ pc = "done"
    /\ \E f \in BOOLEAN :
         IF entry = "main"
         THEN /\ args' = [args EXCEPT !.force = f]
              /\ call' = NoCall
              /\ pc' = "main"
         ELSE /\ args' = NoArgs
              /\ call' = [call EXCEPT !.force = f]
              /\ pc' = "trim"
    /\ exit' = NotExited
    /\ err' = "None"
    /\ todo' = <<>>
    /\ opened' = {}
    /\ sliced' = {}
    /\ log' = <<>>
    /\ UNCHANGED <<src, outFile, entry>>

Next ==
    \/ Main
    \/ TrimOpen
    \/ VisitGroup
    \/ VisitDataset
    \/ VisitOther
    \/ Abort
    \/ Finish
    \/ Rerun

Spec == Init /\ [][Next]_vars

-----------------------------------------------------------------------------
(* The claims *)

Min(a, b) == IF a < b THEN a ELSE b

\* the output file was opened for writing by this invocation, so what it
\* holds was written under the window of call
Written == "dst" \in opened

\* a source dataset with at least one axis
IsArray(node) == node.kind = "Dataset" /\ Len(node.shape) > 0

Copied(p) == Written /\ p \in DOMAIN outFile.nodes /\ ~Warned(p)

\* C1: for a window 0 <= start < end and a dataset with leading extent
\* n > 0 copied without error, if end' = min(end, n) > start then the
\* destination has end' - start rows, row i being row start + i of the source
C1_WindowRows ==
    \A p \in DOMAIN src.nodes :
        LET s == src.nodes[p]
            d == outFile.nodes[p]
            first == call.start
            last == Min(call.end[1], s.shape[1])
        IN  ( /\ Copied(p)
              /\ IsArray(s) /\ s.shape[1] > 0
              /\ call.end # None
              /\ 0 <= first /\ first < call.end[1]
              /\ last > first )
            => /\ d.shape[1] = last - first
               /\ Len(d.data) = last - first
               /\ \A i \in 1..(last - first) : d.data[i] = s.data[first + i]

C3_UnboundedEndFromStart ==
    \A p \in DOMAIN src.nodes :
        LET s == src.nodes[p]
            d == outFile.nodes[p]
        IN  ( /\ Copied(p)
              /\ IsArray(s)
              /\ call.end = None
              /\ call.start >= 0 /\ s.shape[1] > call.start )
            => /\ d.shape[1] = s.shape[1] - call.start
               /\ d.data = SubSeq(s.data, call.start + 1, s.shape[1])

SameKinds ==
    \A p \in DOMAIN outFile.nodes :
        /\ p \in DOMAIN src.nodes
        /\ outFile.nodes[p].kind = src.nodes[p].kind

\* C4 as stated: after a run that ends with exit status 0 the node paths of
\* the destination and the kind of each node are exactly those of the source
C4_TreeIsomorphic ==
    (pc = "done" /\ exit = 0) =>
        /\ DOMAIN outFile.nodes = DOMAIN src.nodes
        /\ SameKinds

\* C4 as amended: after a run that ends with exit status 0, every node of
\* the destination is a node of the source of the same kind, every group of
\* the source is in the destination, and so is every dataset of the source
\* for which no warning was printed; the nodes that may be missing are the
\* datasets with a warning and the nodes that are neither group nor dataset
C4_TreeMirroredExceptSkipped ==
    (pc = "done" /\ exit = 0) =>
        /\ SameKinds
        /\ \A p \in DOMAIN src.nodes :
             \/ p \in DOMAIN outFile.nodes
             \/ src.nodes[p].kind = "Dataset" /\ Warned(p)
             \/ src.nodes[p].kind \notin {"Group", "Dataset"}

C4_Witness ==
    /\ pc = "done" /\ exit = 0
    /\ <<"g">> \in DOMAIN outFile.nodes
    /\ Warned(<<"g", "d">>) /\ <<"g", "d">> \notin DOMAIN outFile.nodes
    /\ <<"h">> \in DOMAIN outFile.nodes /\ ~Warned(<<"h">>)

\* the overwrite flag of the invocation
Force == IF entry = "main" THEN args.force ELSE call.force

\* C5: a run started while the output exists, without overwrite permission,
\* ends with a non-zero exit status (the "already exists" error once
\* trim_hdf5 is reached) without opening the output, which stays as it was
C5_SecondRunRefused ==
    [][ (pc \in {"main", "trim"} /\ outFile.exists /\ ~Force)
        => /\ outFile' = outFile
           /\ "dst" \notin opened'
           /\ pc' \in {"trim", "done"}
           /\ (pc' = "done" => exit' = 1)
           /\ (pc = "trim" => pc' = "done" /\ err' = "OutputExists") ]_vars

C5_Witness ==
    /\ pc = "done" /\ exit = 1 /\ err = "OutputExists"
    /\ ~Force
    /\ opened = {}
    /\ outFile.exists /\ DOMAIN outFile.nodes # {}

\* C6: a destination dataset whose source carries a compression codec
\* has the same codec and the same parameters
C6_CompressionPreserved ==
    \A p \in DOMAIN outFile.nodes :
        LET s == src.nodes[p]
            d == outFile.nodes[p]
        IN  (s.kind = "Dataset" /\ s.compression # "None")
            => /\ d.compression = s.compression
               /\ d.compression_opts = s.compression_opts

\* C7: with the row-count flag N (N >= 0, the input existing), main calls
\* trim_hdf5 with start = 0 and end = N
C7_RowsModeWindow ==
    (entry = "main" /\ args.rows # None /\ pc # "main" /\ src.exists)
    => /\ call = [start |-> 0, end |-> args.rows, force |-> args.force]
       /\ err # "TypeError"

\* C8: with --range START END and START >= END the run ends with a
\* non-zero exit status, no file opened and the output as it was
C8_BadRangeRejected ==
    [][ (pc = "main" /\ args.range # None /\ args.range[1] >= args.range[2])
        => /\ pc' = "done" /\ exit' = 1
           /\ opened' = {}
           /\ outFile' = outFile ]_vars

C8_Witness ==
    /\ pc = "done" /\ exit = 1 /\ err = "RangeError"
    /\ args.range # None /\ args.range[1] = args.range[2]
    /\ opened = {}

\* C9: a run given a negative start is rejected before the traversal: it
\* slices no dataset (so none with a negative start index) and does not
\* end in success
C9_NegativeStartRejected ==
    call.start < 0 =>
        /\ sliced = {}
        /\ ~(pc = "done" /\ exit = 0)

\* C10: at the end of a run that went through the whole traversal, a
\* dataset whose copy raised an error (a warning was printed for it) is
\* absent from the destination
C10_FailedDatasetAbsent ==
    (pc = "done" /\ exit = 0) =>
        \A p \in DOMAIN src.nodes :
            Warned(p) => p \notin DOMAIN outFile.nodes

====
